---- MODULE Spec2Model ----
(***************************************************************************)
(* Model of the DevOrchestra pipeline control core:                        *)
(*   agents/orchestrator.py  OrchestratorAgent (dispatch, three modes)     *)
(*   agents/base_agent.py    BaseAgent.generate_response (throttle, retry) *)
(*   agents/*_agent.py       the generation agents and the legacy analyzer *)
(*   database.py             DatabaseManager (task records)                *)
(*   api/main.py             websocket_endpoint (the caller)               *)
(*                                                                         *)
(* Time is counted in ticks of 4 seconds, the throttle interval; a sleep    *)
(* or a call shorter than that takes no tick.  Clock differences are kept  *)
(* saturated at min_request_interval, which is all that the comparison in  *)
(* _rate_limit can observe.                                                *)
(***************************************************************************)
EXTENDS Integers, Sequences, FiniteSets, TLC

\* ---------------------------------------------------------------- bounds
MaxCallTicks == 1      \* longest duration of one completion-service call, in ticks

\* ------------------------------------------------------ program constants
max_retries == 3               \* base_agent.py:82
min_request_interval == 1      \* base_agent.py:29   (4.0 s, one tick)
DefaultRetryDelay == 7         \* base_agent.py:70   (30.0 s)
PacingDelay == 0               \* orchestrator.py:184 (0.5 s)
MaxFeatures == 2               \* orchestrator.py:434 features[:2]

Procs == {1, 2}                \* client connections (websocket_endpoint coroutines)
NoSocket == 0                  \* current_websocket = None

Agents == {"orchestrator", "ado_parser", "frontend_agent", "backend_agent",
           "database_agent", "integration", "testing_agent", "legacy_agent",
           "quality_gates"}

Min(a, b) == IF a < b THEN a ELSE b
Sat(n) == Min(n, min_request_interval)

\* ------------------------------------------------------------ task store
\* an id generator that hands out the same id every time
UuidFixed(n) == <<1, -1>>

\* the n-th uuid is <<n, -1>>; f"{task_id}_f{i}" is <<n, i>>
Uuid(n) == <<n, -1>>
NoId == Uuid(0)
SubId(t, i) == <<t[1], i>>
AllIds == Procs \X {-1, 0, 1}
TerminalStatus == {"completed", "failed"}
NoRow == [status |-> "absent", has_result |-> FALSE, updates |-> 0]

\* DatabaseManager.add_task: INSERT one row
add_task(d, id, st) ==
    [d EXCEPT ![id] = [status |-> st, has_result |-> FALSE, updates |-> 0]]

\* a variant of update_task_status that never touches the row
update_task_status_lost(d, id, st, res) == d

\* DatabaseManager.update_task_status: UPDATE ... WHERE id = ?  (no row: no effect)
update_task_status(d, id, st, res) ==
    IF d[id].status = "absent" THEN d
    ELSE [d EXCEPT ![id] = [status |-> st,
                            has_result |-> (res \/ d[id].has_result),
                            updates |-> d[id].updates + 1]]

\* ------------------------------------------------------------- requests
\* user stories are word sequences; legacy_code is "" (absent) or a source text
Lower(w) == CASE w = "Parallel" -> "parallel"
              [] w = "Existing" -> "existing"
              [] OTHER -> w
Contains(story, word) == \E i \in 1..Len(story) : Lower(story[i]) = word

Requests == { [user_story |-> <<"login">>, mode |-> "standard", legacy_code |-> ""],
              [user_story |-> <<"cart", "and", "pay">>, mode |-> "parallel", legacy_code |-> ""],
              [user_story |-> <<"a", "and", "b", "and", "c">>, mode |-> "parallel", legacy_code |-> ""],
              [user_story |-> <<"Parallel", "search">>, mode |-> "standard", legacy_code |-> ""],
              [user_story |-> <<"login">>, mode |-> "legacy", legacy_code |-> "def_foo"],
              [user_story |-> <<"cart", "and", "pay">>, mode |-> "parallel", legacy_code |-> "def_foo"],
              [user_story |-> <<"existing", "report">>, mode |-> "parallel", legacy_code |-> ""],
              [user_story |-> <<"login">>, mode |-> "standard", legacy_code |-> "broken"] }

\* user_story.split(" and "): number of pieces
RECURSIVE CountAnd(_)
CountAnd(story) ==
    IF story = <<>> THEN 0
    ELSE (IF Head(story) = "and" THEN 1 ELSE 0) + CountAnd(Tail(story))
SplitCount(story) == CountAnd(story) + 1
\* a loop that runs the whole story as one feature
NumFeaturesUnsplit(story) == 1

\* features[:2]
NumFeatures(story) == Min(SplitCount(story), MaxFeatures)

\* a dispatch that tests the parallel flag before the legacy flag
DetectModeParallelFirst(r) ==
    IF r.mode = "parallel" \/ Contains(r.user_story, "parallel") THEN "parallel"
    ELSE IF r.legacy_code # "" \/ r.mode = "legacy" \/ Contains(r.user_story, "existing")
         THEN "legacy"
    ELSE "standard"

\* execute_task lines 114-119: the if / elif / else that picks the path
DetectMode(r) ==
    IF r.legacy_code # "" \/ r.mode = "legacy" \/ Contains(r.user_story, "existing")
        THEN "legacy"
    ELSE IF r.mode = "parallel" \/ Contains(r.user_story, "parallel")
        THEN "parallel"
    ELSE "standard"

\* ------------------------------------------------- completion-service text
\* What response.text can be, by the agent that asked.  JSON texts are named by
\* their shape; "prose" is text json.loads rejects.
JsonShapes == {"asked", "partial", "failed", "empty", "array_keys", "array", "prose"}
CodeTexts == {"code_keep", "code_drop", "code_broken"}
Texts(agent) ==
    CASE agent \in {"ado_parser", "integration"} -> JsonShapes
      [] agent = "legacy_agent" -> CodeTexts
      [] OTHER -> {"code"}

RequiredKeys == {"frontend_requirements", "backend_requirements", "database_requirements"}
CompatKeys == {"compatible", "compatibility_score", "mismatches"}
TestingKeys == {"unit_tests", "e2e_tests", "summary"}

\* the fields each role's payload must carry
RoleKeys(agent) ==
    CASE agent = "ado_parser" -> RequiredKeys
      [] agent = "frontend_agent" -> {"component_code", "dependencies"}
      [] agent = "backend_agent" -> {"api_code", "endpoints"}
      [] agent = "database_agent" -> {"schema_sql", "tables"}
      [] agent = "integration" -> CompatKeys
      [] agent = "testing_agent" -> TestingKeys
      [] OTHER -> {}

\* generate_response lines 137-156: these ids get their text wrapped in a JSON envelope
Packaged(agent) == agent \in {"frontend_agent", "backend_agent", "database_agent"}

\* A decoded JSON document, as far as the code looks at it:
\*   t      "obj" (dict), "arr" (list / string / number) or "invalid" (JSONDecodeError)
\*   keys   the keys of a dict, or the members of a list
\*   status the value under "status", "none" when there is none
JsonValue(t, keys, status) == [t |-> t, keys |-> keys, status |-> status]

\* json.loads of a raw service text of the given shape, asked by agent
TextValue(agent, shape) ==
    CASE shape = "asked" -> JsonValue("obj", RoleKeys(agent) \cup {"integration_plan"}, "none")
      [] shape = "partial" -> JsonValue("obj", {"frontend_requirements", "notes"}, "none")
      [] shape = "failed" -> JsonValue("obj", {"status", "error"}, "failed")
      [] shape = "empty" -> JsonValue("obj", {}, "none")
      [] shape = "array_keys" -> JsonValue("arr", RoleKeys(agent), "none")
      [] shape = "array" -> JsonValue("arr", {"item"}, "none")
      [] OTHER -> JsonValue("invalid", {}, "none")

\* What generate_response hands back: kind "service" (lines 123-159), "demo"
\* (_get_demo_response) or "error" (_error_response); text is the service text
\* for kind "service" and "-" otherwise.
Response(kind, text) == [kind |-> kind, text |-> text]
NoResponse == Response("none", "-")

\* _get_demo_response lines 187-286, decoded
DemoValue(agent) ==
    IF Packaged(agent) THEN JsonValue("obj", RoleKeys(agent), "none")
    ELSE JsonValue("obj", {"message", "status"}, "quota_exceeded")

\* _error_response lines 307-336, decoded
ErrorValue(agent) ==
    IF agent = "frontend_agent" THEN JsonValue("obj", {"component_code", "dependencies"}, "none")
    ELSE JsonValue("obj", {"error", "code"}, "none")

\* json.loads(response.replace("```json", "").replace("```", "").strip())
DecodeResponse(agent, resp) ==
    CASE resp.kind = "service" ->
            IF Packaged(agent) THEN JsonValue("obj", RoleKeys(agent), "none")
            ELSE TextValue(agent, resp.text)
      [] resp.kind = "demo" -> DemoValue(agent)
      [] OTHER -> ErrorValue(agent)

\* ------------------------------------------------------- code extraction
\* Strings are sequences of tokens: "x" a lowercase letter, "sp" a blank, "nl" a
\* newline, "esc_n" a backslash followed by n, "fence" three backticks.
MaxLen == 3
Alphabet == {"x", "sp", "nl", "esc_n", "fence"}
Strings == UNION {[1..n -> Alphabet] : n \in 0..MaxLen}
Placeholder == <<"// Empty code">>

\* length of the match of [a-z]*\n at the head of s, 0 when there is none
RECURSIVE FenceTail(_)
FenceTail(s) ==
    IF s = <<>> THEN 0
    ELSE IF Head(s) = "nl" THEN 1
    ELSE IF Head(s) = "x" THEN (IF FenceTail(Tail(s)) = 0 THEN 0 ELSE 1 + FenceTail(Tail(s)))
    ELSE 0

\* re.sub(r'```[a-z]*\n', '', code)
RECURSIVE DropFenceLines(_)
DropFenceLines(s) ==
    IF s = <<>> THEN <<>>
    ELSE IF Head(s) = "fence" /\ FenceTail(Tail(s)) > 0
         THEN DropFenceLines(SubSeq(s, 2 + FenceTail(Tail(s)), Len(s)))
    ELSE <<Head(s)>> \o DropFenceLines(Tail(s))

NotFence(t) == t # "fence"
Whitespace(t) == t \in {"sp", "nl"}

\* str.strip()
RECURSIVE LStrip(_)
LStrip(s) == IF s # <<>> /\ Whitespace(Head(s)) THEN LStrip(Tail(s)) ELSE s
RECURSIVE RStrip(_)
RStrip(s) ==
    IF s # <<>> /\ Whitespace(s[Len(s)]) THEN RStrip(SubSeq(s, 1, Len(s) - 1)) ELSE s
Strip(s) == RStrip(LStrip(s))

\* a cleaner that hands the text back as it is
_clean_code_identity(code) == code

\* _clean_code lines 483-489
_clean_code(code) ==
    IF code = <<>> THEN Placeholder
    ELSE LET unfenced == SelectSeq(DropFenceLines(code), NotFence)
             unescaped == [i \in 1..Len(unfenced) |->
                              IF unfenced[i] = "esc_n" THEN "nl" ELSE unfenced[i]]
         IN Strip(unescaped)

\* An agent result as _extract_code_robust looks at it:
\*   falsy   None or an empty dict
\*   top     result[key]: "absent", "other" (not a string) or "str" with its text
\*   inner   result["result"][key] likewise ("absent" also when there is no
\*           dict under "result")
\*   status  result.get("status")
Value(kind, text) == [kind |-> kind, text |-> text]
Absent == Value("absent", <<>>)
Holder(falsy, top, inner, status) ==
    [falsy |-> falsy, top |-> top, inner |-> inner, status |-> status]
Shapes == {"direct", "nested", "success"}
\* a result that holds text s in one of the three supported shapes
Hold(shape, s) ==
    CASE shape = "direct" -> Holder(FALSE, Value("str", s), Absent, "none")
      [] shape = "nested" -> Holder(FALSE, Absent, Value("str", s), "none")
      [] OTHER -> Holder(FALSE, Absent, Value("str", s), "success")

Unavailable == Value("unavailable", <<>>)
Dump == Value("dump", <<>>)

\* an extraction that looks at the direct key only
_extract_code_direct_only(result) ==
    IF result.falsy THEN Unavailable
    ELSE IF result.top.kind = "str" THEN Value("code", _clean_code(result.top.text))
    ELSE Dump

\* _extract_code_robust lines 457-481
_extract_code_robust(result) ==
    IF result.falsy THEN Unavailable
    ELSE IF result.top.kind = "str" THEN Value("code", _clean_code(result.top.text))
    ELSE IF result.inner.kind = "str" THEN Value("code", _clean_code(result.inner.text))
    ELSE Dump

\* what the service may answer a generation agent: code, text that is blank,
\* and text made of a backslash-n escape
GenerationTexts == {"code", "blank", "escaped_newline"}
Tokens(text) ==
    CASE text = "blank" -> <<"sp">>
      [] text = "escaped_newline" -> <<"esc_n">>
      [] OTHER -> <<"x">>

\* generate_response lines 130-132: the fences are removed, the text is stripped
CleanOutput(s) == Strip(SelectSeq(s, NotFence))

\* lines 210-213: the code the orchestrator extracts from a generation agent's
\* result, by what generate_response handed the agent
ExtractedCode(agent, resp) ==
    CASE resp.kind = "service" ->
            _extract_code_robust(Hold("success", CleanOutput(Tokens(resp.text))))
      [] resp.kind = "demo" \/ agent = "frontend_agent" ->
            _extract_code_robust(Hold("success", <<"x">>))
      [] OTHER -> _extract_code_robust(Holder(FALSE, Absent, Absent, "success"))

\* ------------------------------------------------------------ agent results
\* status  the "status" entry of the returned dict ("none" when it has none)
\* keys    the keys of the payload (the "result" dict of a wrapped result)
\* wrapped TRUE for {"status": .., "result": ..}, FALSE for a bare payload
\* dict    the payload is a dict
\* src     where the payload came from: "service", "demo", "error", "synth"
\*         (synthesised from the story), "handler" (the agent's except branch),
\*         "guard" (_get_fallback_result)
\* detail  a value of the payload the claims look at ("empty_code": the code
\*         extracted from a generation agent's result is the empty string)
Result(status, keys, wrapped, dict, src, detail) ==
    [status |-> status, keys |-> keys, wrapped |-> wrapped, dict |-> dict,
     src |-> src, detail |-> detail]
NoResult == Result("none", {}, FALSE, FALSE, "none", "-")

\* what the pipeline keeps of a generation agent's result: its status and
\* whether it is the guard's canned payload
Brief(result) ==
    [status |-> result.status, src |-> IF result.src = "guard" THEN "guard" ELSE "agent",
     empty |-> result.detail = "empty_code"]
NoBrief == [status |-> "none", src |-> "none", empty |-> FALSE]

\* a parser that reports undecodable text as a failure
ParserResultStrict(resp) ==
    LET v == DecodeResponse("ado_parser", resp) IN
    CASE v.t = "obj" -> Result("success", v.keys \cup RequiredKeys, TRUE, TRUE, resp.kind, "-")
      [] v.t = "arr" /\ RequiredKeys \subseteq v.keys ->
            Result("success", v.keys, TRUE, FALSE, resp.kind, "-")
      [] OTHER -> Result("failed", {"error"}, TRUE, FALSE, "handler", "-")

\* ADOParserAgent.execute_task lines 40-73
ParserResult(resp) ==
    LET v == DecodeResponse("ado_parser", resp) IN
    CASE v.t = "invalid" -> Result("success", RequiredKeys, TRUE, TRUE, "synth", "-")
      [] v.t = "obj" -> Result("success", v.keys \cup RequiredKeys, TRUE, TRUE, resp.kind, "-")
      [] RequiredKeys \subseteq v.keys -> Result("success", v.keys, TRUE, FALSE, resp.kind, "-")
      [] OTHER -> Result("failed", {"error"}, TRUE, FALSE, "handler", "-")

\* FrontendAgent / BackendAgent / DatabaseAgent .execute_task
GenerationResult(agent, resp) ==
    LET v == DecodeResponse(agent, resp) IN
    IF v.t = "invalid" THEN Result("failed", {"error"}, TRUE, FALSE, "handler", "-")
    ELSE Result("success", v.keys, TRUE, v.t = "obj", resp.kind,
                IF ExtractedCode(agent, resp) = Value("code", <<>>) THEN "empty_code" ELSE "-")

\* IntegrationAgent.execute_task lines 40-51
IntegrationResult(resp) ==
    LET v == DecodeResponse("integration", resp) IN
    IF v.t = "invalid"
    THEN Result("none", CompatKeys, FALSE, TRUE, "handler", "incompatible_0_1")
    ELSE Result(v.status, v.keys, FALSE, v.t = "obj", resp.kind, "-")

\* a guard that hands over whatever the agent returned
SafeResultUnguarded(agent_type, result, raised) == result

\* _get_fallback_result lines 336-379
FallbackResult(agent_type) ==
    CASE agent_type = "frontend" ->
            Result("success", {"component_code", "dependencies"}, TRUE, TRUE, "guard", "-")
      [] agent_type = "backend" ->
            Result("success", {"api_code", "endpoints"}, TRUE, TRUE, "guard", "-")
      [] agent_type = "database" ->
            Result("success", {"schema_sql", "tables"}, TRUE, TRUE, "guard", "-")
      [] agent_type = "testing" ->
            Result("none", TestingKeys, FALSE, TRUE, "guard", "total_0")
      [] agent_type = "integration" ->
            Result("none", CompatKeys, FALSE, TRUE, "guard", "compatible_85_0")
      [] OTHER -> Result("success", {}, TRUE, TRUE, "guard", "-")

\* `not result`: an empty dict or list
Falsy(result) == ~result.wrapped /\ result.keys = {}
\* result.get("status") raises AttributeError on a payload that is no dict
GetRaises(result) == ~result.wrapped /\ ~result.dict

\* _safe_agent_execution lines 317-334, after agent.execute_task returned result
\* (raised = TRUE when it raised instead)
SafeResult(agent_type, result, raised) ==
    IF raised THEN FallbackResult(agent_type)
    ELSE IF Falsy(result) THEN FallbackResult(agent_type)
    ELSE IF GetRaises(result) THEN FallbackResult(agent_type)
    ELSE IF result.status = "failed" THEN FallbackResult(agent_type)
    ELSE result

\* ------------------------------------------------------------ legacy code
\* _analyze_with_ast on the source texts of the model: ast.parse fails on the
\* broken ones; the two fallback documents parse as Python expressions.
ParseError(code) == code \in {"broken", "code_broken"}
Functions(code) ==
    CASE code = "def_foo" -> {"foo"}
      [] code = "code_keep" -> {"foo", "bar"}
      [] code = "code_drop" -> {"bar"}
      [] OTHER -> {}

\* the functions a source text of the model defines, whether or not the text
\* as a whole parses ("broken": def foo followed by a line that is no Python 3)
Defined(code) ==
    CASE code = "broken" -> {"foo"}
      [] code = "code_broken" -> {"foo", "bar"}
      [] OTHER -> Functions(code)

\* _generate_safe_modifications lines 256-264: the text generate_response
\* returned, fences stripped (generate_response never raises, so line 265 is
\* not reached)
ModifiedCode(legacy_code, resp) ==
    CASE resp.kind = "service" -> resp.text
      [] resp.kind = "demo" -> "demo_json"
      [] OTHER -> "error_json"

\* _check_compatibility lines 286-299 (no endpoints in the model's sources)
IsCompatible(original, modified) ==
    (IF ParseError(original) THEN {} ELSE Functions(original))
        \subseteq (IF ParseError(modified) THEN {} ELSE Functions(modified))

\* _analyze_with_ast lines 155-159 (line 90 before them; a parse error leaves
\* the key out and _assess_risks reads 0): two per function, the model's
\* sources hold neither classes nor endpoints
ComplexityScore(code) == IF ParseError(code) THEN 0 ELSE 2 * Cardinality(Functions(code))

\* len(text.split('\n')) of the model's texts: the error document keeps the
\* line break after its fence's language tag, the demo document has no fence
LineCount(code) ==
    CASE code \in {"broken", "code_broken", "code_keep", "error_json"} -> 2
      [] OTHER -> 1

\* _generate_safe_modifications lines 256-264: the dict of the try branch, the
\* only one reached; it has no "error" key (error = FALSE)
Modifications(legacy_code, modified_code) ==
    [modified_code |-> modified_code,
     new_lines |-> LineCount(modified_code) - LineCount(legacy_code),
     error |-> FALSE]

\* _assess_risks lines 338-366; mods.error stands for mods.get("error") truthy
_assess_risks(ast, mods) ==
    LET risk_score == (IF ast.complexity_score > 50 THEN 30 ELSE 0)
                      + (IF mods.new_lines > 50 THEN 20 ELSE 0)
                      + (IF mods.error THEN 50 ELSE 0)
    IN [risk_score |-> risk_score,
        risk_level |-> IF risk_score < 30 THEN "low"
                       ELSE IF risk_score < 60 THEN "medium" ELSE "high"]
NoRisk == [risk_score |-> 0, risk_level |-> "none"]

LegacyAnalysis(keys, src, modified, phase4, compatible, risk) ==
    [keys |-> keys, src |-> src, modified_code |-> modified, phase4 |-> phase4,
     backward_compatible |-> compatible, risk_assessment |-> risk]
NoAnalysis == LegacyAnalysis({}, "none", "-", "none", FALSE, NoRisk)
ReportKeys == {"phase1_ast_analysis", "phase2_understanding", "phase3_integration_plan",
               "phase4_modifications", "compatibility_report", "backward_compatible",
               "risk_assessment", "diff"}

\* ------------------------------------------------- compatibility analysis
\* An analysis record of _analyze_with_ast: parse_error, or the function names
\* and the names of the functions declared as endpoints ("raised": ast.parse
\* raised something other than SyntaxError, there is no record).
FunctionNames == {"foo", "bar"}
Analysis(kind, functions, endpoints) ==
    [kind |-> kind, functions |-> functions, endpoints |-> endpoints]
ParseErrorRecord == Analysis("parse_error", {}, {})
Raised == Analysis("raised", {}, {})
Analyses ==
    {ParseErrorRecord} \cup
    {Analysis("ok", F, E) : <<F, E>> \in {fe \in (SUBSET FunctionNames) \X (SUBSET FunctionNames) :
                                              fe[2] \subseteq fe[1]}}
NoScore == -1

Compatibility(is_compatible, score, missing_endpoints, missing_functions) ==
    [is_compatible |-> is_compatible, compatibility_score |-> score,
     missing_endpoints |-> missing_endpoints, missing_functions |-> missing_functions]

\* a check that compares the endpoints only
_check_compatibility_endpoints_only(ast_analysis, modified_ast) ==
    IF modified_ast.kind = "raised" THEN Compatibility(FALSE, NoScore, {}, {})
    ELSE LET missing_endpoints == ast_analysis.endpoints \ modified_ast.endpoints
             is_compatible == Cardinality(missing_endpoints) = 0
         IN Compatibility(is_compatible, IF is_compatible THEN 100 ELSE 50,
                          missing_endpoints, {})

\* _check_compatibility lines 271-308, modified_ast being the analysis of the
\* modified code
_check_compatibility(ast_analysis, modified_ast) ==
    IF modified_ast.kind = "raised" THEN Compatibility(FALSE, NoScore, {}, {})
    ELSE LET missing_endpoints == ast_analysis.endpoints \ modified_ast.endpoints
             missing_functions == ast_analysis.functions \ modified_ast.functions
             is_compatible == Cardinality(missing_endpoints) = 0
                              /\ Cardinality(missing_functions) = 0
         IN Compatibility(is_compatible, IF is_compatible THEN 100 ELSE 50,
                          missing_endpoints, missing_functions)

\* ------------------------------------------------------------------ state
VARIABLES
    model,              \* BaseAgent.model is set (an API key is configured)
    quality_gates,      \* OrchestratorAgent.quality_gates is not None
    execute_tests,      \* TestingAgent.execute_tests (EXECUTE_TESTS, "true" by default)
    current_websocket,  \* OrchestratorAgent.current_websocket (NoSocket = None)
    conn_open,          \* per connection: send_json succeeds
    current_status,     \* BaseAgent.current_status of every agent
    last_request_age,   \* per agent: time.time() - last_request_time, saturated
    since_call,         \* time since the last completion-service call began, saturated
    last_call,          \* the most recent call: since_call when it began (gap), the
                        \* connection it was made for (by) and that of the call before
    db,                 \* the tasks table
    next_id,            \* the next uuid
    pc,                 \* per connection: where its coroutine stands
    ctx,                \* per connection: the locals of execute_task and its callees
    gr,                 \* per connection: the locals of generate_response
    wait,               \* per connection: ticks until its pending await completes
    events,             \* per connection: the events delivered to it for the current call
    ret,                \* per connection: what execute_task returned last
    probe               \* one call of a helper on its own: its arguments and its result

vars == <<model, quality_gates, execute_tests, current_websocket, conn_open, current_status,
          last_request_age, since_call, last_call, db, next_id, pc, ctx, gr, wait,
          events, ret, probe>>

envVars == <<model, quality_gates, execute_tests, probe>>
clockVars == <<last_request_age, since_call, last_call>>

FinalResult(task_id, mode, status, error, integration, testing, quality, features, analysis) ==
    [task_id |-> task_id, mode |-> mode, status |-> status, error |-> error,
     integration_report |-> integration, testing_report |-> testing,
     quality_report |-> quality, features |-> features, legacy_analysis |-> analysis,
     backward_compatible |-> analysis.backward_compatible,
     generated_code |-> [frontend |-> "-", backend |-> "-", database |-> "-"]]
NoReturn == FinalResult(NoId, "none", "none", "", NoResult, NoResult, NoResult, <<>>, NoAnalysis)

\* What a run has done so far, in order: the writes it issued to the task store
\* ("add", "update": db.add_task / db.update_task_status, with the id passed)
\* and the agents whose execute_task it called ("agent", with the agent's id).
Did(c, op, what) == [c EXCEPT !.trace = Append(@, <<op, what>>)]
Writes(trace) == SelectSeq(trace, LAMBDA e : e[1] \in {"add", "update"})
Invoked(trace) == SelectSeq(trace, LAMBDA e : e[1] = "agent")

Execution(passed, note) == [passed |-> passed, note |-> note]
NoExecution == Execution(FALSE, "none")

NoRequest == [user_story |-> <<>>, mode |-> "standard", legacy_code |-> ""]
NoCtx == [req |-> NoRequest, task_id |-> NoId, cur_id |-> NoId, path |-> "none", sub |-> -1,
          story |-> <<>>,
          frontend_result |-> NoBrief,
          backend_result |-> NoBrief, database_result |-> NoBrief,
          integration_result |-> NoResult, unit |-> NoResponse,
          unit_execution |-> NoExecution,
          features |-> <<>>, escaped |-> FALSE, trace |-> <<>>]
NoGr == [agent |-> "none", stage |-> "idle", attempt |-> 0, calls |-> 0, sleeps |-> 0,
         resp |-> NoResponse]

NoProbe == [fn |-> "none", arg |-> <<>>, out |-> <<>>, done |-> FALSE]

\* the orchestrator and its agents as constructed, the task store empty
Constructed ==
    /\ current_websocket = NoSocket
    /\ conn_open = [c \in Procs |-> TRUE]
    /\ current_status = [a \in Agents |-> "idle"]
    /\ last_request_age = [a \in Agents |-> min_request_interval]
    /\ since_call = min_request_interval
    /\ last_call = [gap |-> min_request_interval, by |-> 0, prev |-> 0]
    /\ db = [id \in AllIds |-> NoRow]
    /\ next_id = 1
    /\ pc = [p \in Procs |-> "idle"]
    /\ ctx = [p \in Procs |-> NoCtx]
    /\ gr = [p \in Procs |-> NoGr]
    /\ wait = [p \in Procs |-> 0]
    /\ events = [p \in Procs |-> <<>>]
    /\ ret = [p \in Procs |-> NoReturn]

Init ==
    /\ model \in BOOLEAN
    /\ quality_gates \in BOOLEAN
    /\ execute_tests = TRUE
    /\ probe = NoProbe
    /\ Constructed

\* ------------------------------------------------------- progress channel
Progress(n) == [type |-> "progress", progress |-> n]
Complete == [type |-> "complete", progress |-> -1]
Error == [type |-> "error", progress |-> -1]

\* current_websocket.send_json(e) inside try / except: delivered when a socket is
\* attached and its send succeeds, dropped otherwise
Send(evs, ws, e) ==
    IF ws # NoSocket /\ conn_open[ws] THEN [evs EXCEPT ![ws] = Append(@, e)] ELSE evs

RECURSIVE SendAll(_, _, _)
SendAll(evs, ws, es) ==
    IF es = <<>> THEN evs ELSE SendAll(Send(evs, ws, Head(es)), ws, Tail(es))

\* ------------------------------------------------------ generate_response
InFlight(p) == pc[p] \notin {"idle", "returned"}
Runnable(p) == InFlight(p) /\ wait[p] = 0

\* the caller's `await self.generate_response(prompt)`
Call(agent) == [NoGr EXCEPT !.agent = agent, !.stage = "enter"]
Returned(p) == gr[p].stage = "done"

\* a throttle that never sleeps
RateLimitWaitNone(age) == 0

\* _rate_limit lines 57-63: how long it sleeps
RateLimitWait(age) ==
    IF age < min_request_interval THEN min_request_interval - age ELSE 0

\* an entry that goes on to the service whether or not a model is configured
GenerateEnterUnchecked(p) ==
    /\ Runnable(p)
    /\ gr[p].stage = "enter"
    /\ current_status' = [current_status EXCEPT ![gr[p].agent] = "processing"]
    /\ gr' = [gr EXCEPT ![p].stage = "ready"]
    /\ wait' = [wait EXCEPT ![p] = RateLimitWait(last_request_age[gr[p].agent])]
    /\ UNCHANGED <<envVars, current_websocket, conn_open, clockVars, db, next_id, pc,
                   ctx, events, ret>>

\* generate_response lines 74-80: entry, the missing-model return, the throttle
GenerateEnter(p) ==
    /\ Runnable(p)
    /\ gr[p].stage = "enter"
    /\ current_status' = [current_status EXCEPT ![gr[p].agent] = "processing"]
    /\ IF ~model
       THEN /\ gr' = [gr EXCEPT ![p].stage = "done", ![p].resp = Response("error", "-")]
            /\ wait' = wait
       ELSE /\ gr' = [gr EXCEPT ![p].stage = "ready"]
            /\ wait' = [wait EXCEPT ![p] = RateLimitWait(last_request_age[gr[p].agent])]
    /\ UNCHANGED <<envVars, current_websocket, conn_open, clockVars, db, next_id, pc,
                   ctx, events, ret>>

\* line 123: the call to the completion service begins
ServiceCall(p, d) ==
    /\ Runnable(p)
    /\ gr[p].stage = "ready"
    /\ last_call' = [gap |-> since_call, by |-> p, prev |-> last_call.by]
    /\ since_call' = 0
    /\ gr' = [gr EXCEPT ![p].stage = "calling", ![p].calls = @ + 1]
    /\ wait' = [wait EXCEPT ![p] = d]
    /\ UNCHANGED <<envVars, current_websocket, conn_open, current_status,
                   last_request_age, db, next_id, pc, ctx, events, ret>>

\* lines 124-159: the service answered with text
ServiceReturns(p, text) ==
    /\ Runnable(p)
    /\ gr[p].stage = "calling"
    /\ last_request_age' = [last_request_age EXCEPT ![gr[p].agent] = 0]
    /\ current_status' = [current_status EXCEPT ![gr[p].agent] = "idle"]
    /\ gr' = [gr EXCEPT ![p].stage = "done", ![p].resp = Response("service", text)]
    /\ UNCHANGED <<envVars, current_websocket, conn_open, since_call, last_call, db,
                   next_id, pc, ctx, wait, events, ret>>


\* a retry test that never gives up
MayRetryAlways(attempt) == TRUE

\* line 168: attempt < max_retries - 1
MayRetry(attempt) == attempt < max_retries - 1

\* The text of a quota / rate-limit error: it names a retry delay ("retry in
\* 1s", "retry in 4s", "retry in 8s") or none
QuotaTexts == {"quota", "retry_in_1s", "retry_in_4s", "retry_in_8s"}

\* an extraction that never finds a delay in the text
_extract_retry_delay_default(error_msg) == DefaultRetryDelay

\* _extract_retry_delay lines 65-70: the delay the error text names, in ticks
\* of 4 s, else the default
_extract_retry_delay(error_msg) ==
    CASE error_msg = "retry_in_1s" -> 0
      [] error_msg = "retry_in_4s" -> 1
      [] error_msg = "retry_in_8s" -> 2
      [] OTHER -> DefaultRetryDelay

\* lines 161-179: the call failed with a quota / rate-limit error
ServiceQuotaError(p, error_msg) ==
    /\ Runnable(p)
    /\ gr[p].stage = "calling"
    /\ gr[p].calls <= max_retries
    /\ IF MayRetry(gr[p].attempt)
       THEN /\ gr' = [gr EXCEPT ![p].stage = "ready", ![p].attempt = @ + 1,
                                ![p].sleeps = @ + 1]
            /\ wait' = [wait EXCEPT ![p] = _extract_retry_delay(error_msg)]
       ELSE /\ gr' = [gr EXCEPT ![p].stage = "done", ![p].resp = Response("demo", "-")]
            /\ wait' = wait
    /\ UNCHANGED <<envVars, current_websocket, conn_open, current_status, clockVars,
                   db, next_id, pc, ctx, events, ret>>

\* a failure path that records the time of the failed call
ServiceOtherErrorStamped(p) ==
    /\ Runnable(p)
    /\ gr[p].stage = "calling"
    /\ last_request_age' = [last_request_age EXCEPT ![gr[p].agent] = 0]
    /\ gr' = [gr EXCEPT ![p].stage = "done", ![p].resp = Response("error", "-")]
    /\ UNCHANGED <<envVars, current_websocket, conn_open, current_status, since_call,
                   last_call, db, next_id, pc, ctx, wait, events, ret>>

\* lines 180-182: the call failed with any other error
ServiceOtherError(p) ==
    /\ Runnable(p)
    /\ gr[p].stage = "calling"
    /\ gr' = [gr EXCEPT ![p].stage = "done", ![p].resp = Response("error", "-")]
    /\ UNCHANGED <<envVars, current_websocket, conn_open, current_status, clockVars,
                   db, next_id, pc, ctx, wait, events, ret>>

\* --------------------------------------------------------------- the clock
Waiting == {p \in Procs : InFlight(p) /\ wait[p] > 0}
MinWait == CHOOSE d \in {wait[p] : p \in Waiting} : \A q \in Waiting : d <= wait[q]

\* Time passes up to the next wake-up (one tick when nothing is pending); it
\* passes only while no coroutine is ready to run.
Advance ==
    /\ \A p \in Procs : ~Runnable(p)
    /\ LET d == IF Waiting = {} THEN 1 ELSE MinWait IN
       /\ last_request_age' = [a \in Agents |-> Sat(last_request_age[a] + d)]
       /\ since_call' = Sat(since_call + d)
       /\ wait' = [p \in Procs |-> IF p \in Waiting THEN wait[p] - d ELSE wait[p]]
    /\ (Waiting = {} => (last_request_age' # last_request_age \/ since_call' # since_call))
    /\ UNCHANGED <<envVars, current_websocket, conn_open, current_status, last_call, db,
                   next_id, pc, ctx, gr, events, ret>>

\* ------------------------------------------------------------ the caller
\* websocket_endpoint lines 57-75: a request arrives on connection p; the
\* endpoint attaches p's socket to the shared orchestrator and sends the
\* initial progress event itself.  The request carries the fields of the
\* orchestrator's task dict.
Receive(p, r) ==
    /\ pc[p] = "idle"
    /\ current_websocket' = p
    /\ conn_open' = [conn_open EXCEPT ![p] = TRUE]
    /\ events' = [events EXCEPT ![p] = <<Progress(5)>>]
    /\ ctx' = [ctx EXCEPT ![p] = [NoCtx EXCEPT !.req = r]]
    /\ pc' = [pc EXCEPT ![p] = "accepted"]
    /\ gr' = [gr EXCEPT ![p] = NoGr]
    /\ wait' = [wait EXCEPT ![p] = 0]
    /\ UNCHANGED <<envVars, current_status, clockVars, db, next_id, ret>>

\* the client goes away once its request is in: every send_json of the run raises
Disconnect(p) ==
    /\ pc[p] = "accepted"
    /\ conn_open[p]
    /\ conn_open' = [conn_open EXCEPT ![p] = FALSE]
    /\ UNCHANGED <<envVars, current_websocket, current_status, clockVars, db, next_id,
                   pc, ctx, gr, wait, events, ret>>

\* a send failure that is raised out of the run: the run ends in the top-level
\* handler
DropAborts(p) ==
    /\ InFlight(p)
    /\ conn_open[p]
    /\ ctx[p].task_id # NoId
    /\ conn_open' = [conn_open EXCEPT ![p] = FALSE]
    /\ db' = update_task_status(db, ctx[p].task_id, "failed", TRUE)
    /\ ret' = [ret EXCEPT ![p].task_id = ctx[p].task_id, ![p].status = "failed"]
    /\ pc' = [pc EXCEPT ![p] = "returned"]
    /\ gr' = [gr EXCEPT ![p] = NoGr]
    /\ wait' = [wait EXCEPT ![p] = 0]
    /\ UNCHANGED <<envVars, current_websocket, current_status, clockVars, next_id, ctx,
                   events>>

\* the client goes away while its run is under way: every later send_json on
\* its socket raises (inside the try of lines 68-78, 126-132, 299-312, 414-421)
Drop(p) ==
    /\ InFlight(p)
    /\ conn_open[p]
    /\ conn_open' = [conn_open EXCEPT ![p] = FALSE]
    /\ UNCHANGED <<envVars, current_websocket, current_status, clockVars, db, next_id,
                   pc, ctx, gr, wait, events, ret>>

\* test_system.py lines 46, 141: execute_task is called on a freshly constructed
\* orchestrator, no socket attached
Direct(p, r) ==
    /\ pc[p] = "idle"
    /\ current_websocket = NoSocket
    /\ ctx' = [ctx EXCEPT ![p] = [NoCtx EXCEPT !.req = r]]
    /\ pc' = [pc EXCEPT ![p] = "accepted"]
    /\ gr' = [gr EXCEPT ![p] = NoGr]
    /\ wait' = [wait EXCEPT ![p] = 0]
    /\ UNCHANGED <<envVars, current_websocket, conn_open, current_status, clockVars, db,
                   next_id, events, ret>>

\* ------------------------------------------------------------ execute_task
\* a dispatch that sends every request down the standard pipeline
PathEntryStandard(path) == "std_begin"

PathEntry(path) ==
    CASE path = "legacy" -> "leg_begin"
      [] path = "parallel" -> "par_begin"
      [] OTHER -> "std_begin"

\* execute_task lines 102-119: the record is added, the path is chosen
execute_task(p) ==
    /\ pc[p] = "accepted"
    /\ current_status' = [current_status EXCEPT !["orchestrator"] = "processing"]
    /\ db' = add_task(db, Uuid(next_id), "in_progress")
    /\ next_id' = next_id + 1
    /\ LET path == DetectMode(ctx[p].req) IN
       /\ ctx' = [ctx EXCEPT ![p].task_id = Uuid(next_id), ![p].cur_id = Uuid(next_id),
                             ![p].path = path, ![p].story = ctx[p].req.user_story,
                             ![p].trace = Append(@, <<"add", Uuid(next_id)>>)]
       /\ pc' = [pc EXCEPT ![p] = PathEntry(path)]
    /\ UNCHANGED <<envVars, current_websocket, conn_open, clockVars, gr, wait, events,
                   ret>>

\* what stays of the locals once execute_task has returned
Closed(c, escaped) ==
    [NoCtx EXCEPT !.req = c.req, !.task_id = c.task_id, !.path = c.path,
                  !.escaped = escaped, !.trace = c.trace]

AttributeError == "'list' object has no attribute 'get'"

\* execute_task lines 121-142: the handler of an exception that escaped the
\* path; evs and cs are the events and statuses as the path left them
ExceptHandler(p, evs, cs) ==
    /\ current_status' = [cs EXCEPT !["orchestrator"] = "idle"]
    /\ events' = Send(evs, current_websocket, Error)
    /\ db' = update_task_status(db, ctx[p].task_id, "failed", TRUE)
    /\ ret' = [ret EXCEPT ![p] =
                 FinalResult(ctx[p].task_id, "none", "failed", AttributeError,
                             NoResult, NoResult, NoResult, <<>>, NoAnalysis)]
    /\ ctx' = [ctx EXCEPT ![p] = Closed(Did(ctx[p], "update", ctx[p].task_id), TRUE)]
    /\ pc' = [pc EXCEPT ![p] = "returned"]
    /\ gr' = [gr EXCEPT ![p] = NoGr]

\* ----------------------------------------------- _execute_standard_generation
OrchestratorRequirements == Result("success", RequiredKeys, TRUE, TRUE, "orchestrator", "-")

\* lines 148-154: progress 10, then the requirement parser is awaited
StdParse(p) ==
    /\ Runnable(p)
    /\ pc[p] = "std_begin"
    /\ events' = Send(events, current_websocket, Progress(10))
    /\ gr' = [gr EXCEPT ![p] = Call("ado_parser")]
    /\ ctx' = [ctx EXCEPT ![p] = Did(@, "agent", "ado_parser")]
    /\ pc' = [pc EXCEPT ![p] = "std_parse"]
    /\ UNCHANGED <<envVars, current_websocket, conn_open, current_status, clockVars, db,
                   next_id, wait, ret>>

\* lines 156-182: the parser's result (or the fallback requirements), progress
\* 30 and 35, then req_data.get(..) and the guarded frontend agent
StdFrontend(p) ==
    /\ Runnable(p)
    /\ pc[p] = "std_parse"
    /\ Returned(p)
    /\ LET requirements == ParserResult(gr[p].resp)
           req_data == IF requirements.status = "failed"
                       THEN OrchestratorRequirements ELSE requirements
           evs == SendAll(events, current_websocket, <<Progress(30), Progress(35)>>)
       IN IF ~req_data.dict
          THEN /\ ExceptHandler(p, evs, current_status)
               /\ UNCHANGED <<envVars, current_websocket, conn_open, clockVars, next_id,
                              wait>>
          ELSE /\ current_status' = [current_status EXCEPT !["frontend_agent"] = "processing"]
               /\ gr' = [gr EXCEPT ![p] = Call("frontend_agent")]
               /\ ctx' = [ctx EXCEPT ![p] = Did(@, "agent", "frontend_agent")]
               /\ pc' = [pc EXCEPT ![p] = "std_frontend"]
               /\ events' = evs
               /\ UNCHANGED <<envVars, current_websocket, conn_open, clockVars, db,
                              next_id, wait, ret>>

\* lines 175-184, 188-197: a guarded generation agent returned; pacing sleep
StdGenerated(p, at, agent, agent_type, field, next) ==
    /\ Runnable(p)
    /\ pc[p] = at
    /\ Returned(p)
    /\ ctx' = [ctx EXCEPT ![p][field] =
                  Brief(SafeResult(agent_type, GenerationResult(agent, gr[p].resp), FALSE))]
    /\ current_status' = [current_status EXCEPT ![agent] = "idle"]
    /\ gr' = [gr EXCEPT ![p] = NoGr]
    /\ wait' = [wait EXCEPT ![p] = PacingDelay]
    /\ pc' = [pc EXCEPT ![p] = next]
    /\ UNCHANGED <<envVars, current_websocket, conn_open, clockVars, db, next_id,
                   events, ret>>

StdFrontendDone(p) ==
    StdGenerated(p, "std_frontend", "frontend_agent", "frontend", "frontend_result",
                 "std_backend_start")

StdBackendDone(p) ==
    StdGenerated(p, "std_backend", "backend_agent", "backend", "backend_result",
                 "std_database_start")

\* lines 187-195, 200-208: after the sleep, the progress event and the next agent
StdGenerate(p, at, percent, agent, next) ==
    /\ Runnable(p)
    /\ pc[p] = at
    /\ events' = Send(events, current_websocket, Progress(percent))
    /\ current_status' = [current_status EXCEPT ![agent] = "processing"]
    /\ gr' = [gr EXCEPT ![p] = Call(agent)]
    /\ ctx' = [ctx EXCEPT ![p] = Did(@, "agent", agent)]
    /\ pc' = [pc EXCEPT ![p] = next]
    /\ UNCHANGED <<envVars, current_websocket, conn_open, clockVars, db, next_id, wait,
                   ret>>

\* a pipeline that asks the database agent before the backend agent has run
StdBackendSkipped(p) ==
    StdGenerate(p, "std_backend_start", 55, "database_agent", "std_database")

StdBackend(p) == StdGenerate(p, "std_backend_start", 55, "backend_agent", "std_backend")

StdDatabase(p) == StdGenerate(p, "std_database_start", 70, "database_agent", "std_database")

\* lines 201-224: the database agent returned; code extraction; progress 80;
\* the guarded integration agent
StdIntegration(p) ==
    /\ Runnable(p)
    /\ pc[p] = "std_database"
    /\ Returned(p)
    /\ ctx' = [ctx EXCEPT ![p].database_result =
                  Brief(SafeResult("database", GenerationResult("database_agent", gr[p].resp),
                                   FALSE)),
                          ![p].trace = Append(@, <<"agent", "integration">>)]
    /\ events' = Send(events, current_websocket, Progress(80))
    /\ current_status' = [current_status EXCEPT !["database_agent"] = "idle",
                                                !["integration"] = "processing"]
    /\ gr' = [gr EXCEPT ![p] = Call("integration")]
    /\ pc' = [pc EXCEPT ![p] = "std_integration"]
    /\ UNCHANGED <<envVars, current_websocket, conn_open, clockVars, db, next_id, wait,
                   ret>>

\* lines 217-236 and TestingAgent.execute_task lines 23-49: the integration
\* agent returned; progress 85; the testing agent asks for the unit tests
StdTesting(p) ==
    /\ Runnable(p)
    /\ pc[p] = "std_integration"
    /\ Returned(p)
    /\ ctx' = [ctx EXCEPT ![p].integration_result =
                  SafeResult("integration", IntegrationResult(gr[p].resp), FALSE),
                          ![p].trace = Append(@, <<"agent", "testing_agent">>)]
    /\ events' = Send(events, current_websocket, Progress(85))
    /\ current_status' = [current_status EXCEPT !["integration"] = "idle",
                                                !["testing_agent"] = "processing"]
    /\ gr' = [gr EXCEPT ![p] = Call("testing_agent")]
    /\ pc' = [pc EXCEPT ![p] = "std_unit"]
    /\ UNCHANGED <<envVars, current_websocket, conn_open, clockVars, db, next_id, wait,
                   ret>>

PytestTimeout == 3      \* testing_agent.py:157 (15 s)

\* How a pytest run on the generated files can end
PytestRuns == {"passed", "failed", "timeout", "raised"}

\* _execute_pytest lines 137-183: the exit code decides; a timeout and any other
\* exception are caught and reported under "error"
_execute_pytest(run) ==
    CASE run = "passed" -> Execution(TRUE, "output")
      [] run = "failed" -> Execution(FALSE, "output")
      [] OTHER -> Execution(FALSE, "error")

\* lines 59-67: the tests are run when execution is enabled and there is
\* backend code; otherwise the artifact is reported as passed
UnitExecution(enabled, backend_code_empty, run) ==
    IF enabled /\ ~backend_code_empty THEN _execute_pytest(run)
    ELSE Execution(TRUE, "disabled")

\* TestingAgent.execute_task lines 50-94: the unit tests came back (lines 69-72
\* are not reached: generate_response does not raise); pytest runs in a blocking
\* subprocess, up to its timeout, and cannot pass on a text that is no test
\* file; the end-to-end tests are asked for
TestingE2E(p, run) ==
    /\ Runnable(p)
    /\ pc[p] = "std_unit"
    /\ Returned(p)
    /\ LET executes == execute_tests /\ ~ctx[p].backend_result.empty
           d == IF executes /\ run = "timeout" THEN PytestTimeout ELSE 0
       IN /\ (executes /\ run = "passed") => gr[p].resp.kind = "service"
          /\ ctx' = [ctx EXCEPT ![p].unit = gr[p].resp,
                                ![p].unit_execution =
                                    UnitExecution(execute_tests, ctx[p].backend_result.empty, run)]
          /\ last_request_age' = [a \in Agents |-> Sat(last_request_age[a] + d)]
          /\ since_call' = Sat(since_call + d)
    /\ gr' = [gr EXCEPT ![p] = Call("testing_agent")]
    /\ pc' = [pc EXCEPT ![p] = "std_e2e"]
    /\ UNCHANGED <<envVars, current_websocket, conn_open, current_status, last_call, db,
                   next_id, wait, events, ret>>

\* TestingAgent.execute_task lines 95-135: both artifacts, their execution
\* records and the summary (lines 108-111 are not reached either, the
\* end-to-end record is always the one of lines 101-106)
TestingResult(unit, unit_execution, e2e) ==
    [status |-> "none",
     keys |-> TestingKeys \cup {"unit_execution", "e2e_execution", "overall_passed"},
     wrapped |-> FALSE, dict |-> TRUE, src |-> unit.kind, detail |-> e2e.kind,
     unit_execution |-> unit_execution,
     e2e_execution |-> Execution(TRUE, "output"),
     overall_passed |-> unit_execution.passed]

\* QualityGatesAgent.execute_task lines 24-44
QualityReport ==
    Result("none", {"quality_analysis", "overall_quality", "passed_quality_gates",
                    "recommendations"}, FALSE, TRUE, "quality_gates", "-")

\* a pipeline that has no quality-gate phase
QualityPhaseSkipped(available, c, evs, raised) ==
    [ctx |-> c, events |-> evs, result |-> NoResult]

\* lines 238-250: with a quality-gate agent, progress 92 and the guarded agent
\* (it computes its report without awaiting anything; raised: it raised);
\* without one, nothing.  c and evs are the run's locals and the events so far.
QualityPhase(available, c, evs, raised) ==
    IF available
    THEN [ctx |-> Did(c, "agent", "quality_gates"),
          events |-> Send(evs, current_websocket, Progress(92)),
          result |-> SafeResult("quality", QualityReport, raised)]
    ELSE [ctx |-> c, events |-> evs, result |-> NoResult]

\* lines 228-315: the testing agent returned; the optional quality gate;
\* progress 100; the final result is stored and sent; the path returns
StdComplete(p) ==
    /\ Runnable(p)
    /\ pc[p] = "std_e2e"
    /\ Returned(p)
    /\ \E raised \in BOOLEAN :
       LET testing_result == SafeResult("testing", TestingResult(ctx[p].unit, ctx[p].unit_execution,
                                                                     gr[p].resp), FALSE)
           gate == QualityPhase(quality_gates, ctx[p], events, raised)
           quality_result == gate.result
           evs2 == Send(gate.events, current_websocket, Progress(100))
           code(brief) == IF brief.empty THEN "" ELSE "code"
           stored == Did(gate.ctx, "update", ctx[p].cur_id)
           final_result == [FinalResult(ctx[p].cur_id, "standard", "completed", "",
                                        ctx[p].integration_result, testing_result,
                                        quality_result, <<>>, NoAnalysis)
                            EXCEPT !.generated_code =
                                [frontend |-> code(ctx[p].frontend_result),
                                 backend |-> code(ctx[p].backend_result),
                                 database |-> code(ctx[p].database_result)]]
       IN /\ (~quality_gates => ~raised)
          /\ db' = update_task_status(db, ctx[p].cur_id, "completed", TRUE)
          /\ events' = Send(evs2, current_websocket, Complete)
          /\ current_status' = [current_status EXCEPT !["testing_agent"] = "idle",
                                                      !["quality_gates"] = "idle",
                                                      !["orchestrator"] = "idle"]
          /\ gr' = [gr EXCEPT ![p] = NoGr]
          /\ IF ctx[p].sub = -1
             THEN /\ ret' = [ret EXCEPT ![p] = final_result]
                  /\ ctx' = [ctx EXCEPT ![p] = Closed(stored, FALSE)]
                  /\ pc' = [pc EXCEPT ![p] = "returned"]
             ELSE /\ ret' = ret
                  /\ ctx' = [ctx EXCEPT ![p] =
                               [stored EXCEPT !.features =
                                   Append(@, [task_id |-> final_result.task_id,
                                              mode |-> final_result.mode,
                                              status |-> final_result.status])]]
                  /\ pc' = [pc EXCEPT ![p] = "par_next"]
    /\ UNCHANGED <<envVars, current_websocket, conn_open, clockVars, next_id, wait>>

\* ----------------------------------------------- _execute_parallel_generation
SubRun(c, i) ==
    [c EXCEPT !.sub = i, !.cur_id = SubId(c.task_id, i),
              !.frontend_result = NoBrief,
              !.backend_result = NoBrief, !.database_result = NoBrief,
              !.integration_result = NoResult, !.unit = NoResponse,
              !.unit_execution = NoExecution]

\* a loop that enters the second sub-story while the first has not returned
ParBeginSecond(p) ==
    /\ Runnable(p)
    /\ pc[p] = "par_begin"
    /\ events' = SendAll(events, current_websocket, <<Progress(10), Progress(20)>>)
    /\ ctx' = [ctx EXCEPT ![p] = SubRun(ctx[p], NumFeatures(ctx[p].story) - 1)]
    /\ pc' = [pc EXCEPT ![p] = "std_begin"]
    /\ UNCHANGED <<envVars, current_websocket, conn_open, current_status, clockVars, db,
                   next_id, gr, wait, ret>>

\* lines 429-438: progress 10, the split, progress 20, the first sub-story's
\* standard pipeline is entered with task id f"{task_id}_f0"
ParBegin(p) ==
    /\ Runnable(p)
    /\ pc[p] = "par_begin"
    /\ events' = SendAll(events, current_websocket, <<Progress(10), Progress(20)>>)
    /\ ctx' = [ctx EXCEPT ![p] = SubRun(ctx[p], 0)]
    /\ pc' = [pc EXCEPT ![p] = "std_begin"]
    /\ UNCHANGED <<envVars, current_websocket, conn_open, current_status, clockVars, db,
                   next_id, gr, wait, ret>>

\* lines 434-439: a sub-story's pipeline returned and another feature is left
ParNext(p) ==
    /\ Runnable(p)
    /\ pc[p] = "par_next"
    /\ ctx[p].sub + 1 < NumFeatures(ctx[p].story)
    /\ events' = Send(events, current_websocket, Progress(20 + (ctx[p].sub + 1) * 40))
    /\ ctx' = [ctx EXCEPT ![p] = SubRun(ctx[p], ctx[p].sub + 1)]
    /\ pc' = [pc EXCEPT ![p] = "std_begin"]
    /\ UNCHANGED <<envVars, current_websocket, conn_open, current_status, clockVars, db,
                   next_id, gr, wait, ret>>

\* lines 441-455: the loop is over; progress 100; the result is returned
ParComplete(p) ==
    /\ Runnable(p)
    /\ pc[p] = "par_next"
    /\ ctx[p].sub + 1 >= NumFeatures(ctx[p].story)
    /\ events' = Send(events, current_websocket, Progress(100))
    /\ ret' = [ret EXCEPT ![p] =
                 FinalResult(ctx[p].task_id, "parallel", "completed", "", NoResult,
                             NoResult, NoResult, ctx[p].features, NoAnalysis)]
    /\ current_status' = [current_status EXCEPT !["orchestrator"] = "idle"]
    /\ ctx' = [ctx EXCEPT ![p] = Closed(ctx[p], FALSE)]
    /\ pc' = [pc EXCEPT ![p] = "returned"]
    /\ UNCHANGED <<envVars, current_websocket, conn_open, clockVars, db, next_id, gr,
                   wait>>

\* ------------------------------------------------ _execute_legacy_integration
\* lines 398-424: progress 100, the final result is stored and sent
LegacyReturn(p, evs, cs, c, analysis) ==
    /\ events' = SendAll(evs, current_websocket, <<Progress(100), Complete>>)
    /\ db' = update_task_status(db, ctx[p].task_id, "completed", TRUE)
    /\ ret' = [ret EXCEPT ![p] =
                 FinalResult(ctx[p].task_id, "legacy_integration", "completed", "",
                             NoResult, NoResult, NoResult, <<>>, analysis)]
    /\ current_status' = [cs EXCEPT !["legacy_agent"] = "idle", !["orchestrator"] = "idle"]
    /\ ctx' = [ctx EXCEPT ![p] = Closed(Did(c, "update", c.task_id), FALSE)]
    /\ pc' = [pc EXCEPT ![p] = "returned"]
    /\ gr' = [gr EXCEPT ![p] = NoGr]

\* lines 385-396 and LegacyCodeAgent.execute_task lines 26-45: progress 10; the
\* guarded analyzer returns at once without code, else analyses it and asks
\* the completion service to explain it
LegBegin(p) ==
    /\ Runnable(p)
    /\ pc[p] = "leg_begin"
    /\ LET evs == Send(events, current_websocket, Progress(10)) IN
       IF ctx[p].req.legacy_code = ""
       THEN /\ LegacyReturn(p, evs, current_status, Did(ctx[p], "agent", "legacy_agent"),
                            LegacyAnalysis({"error"}, "no_code", "-", "none", FALSE,
                                           NoRisk))
            /\ UNCHANGED <<envVars, current_websocket, conn_open, clockVars, next_id,
                           wait>>
       ELSE /\ events' = evs
            /\ current_status' = [current_status EXCEPT !["legacy_agent"] = "processing"]
            /\ gr' = [gr EXCEPT ![p] = Call("legacy_agent")]
            /\ ctx' = [ctx EXCEPT ![p] = Did(@, "agent", "legacy_agent")]
            /\ pc' = [pc EXCEPT ![p] = "leg_understand"]
            /\ UNCHANGED <<envVars, current_websocket, conn_open, clockVars, db, next_id,
                           wait, ret>>

\* lines 45-61: a phase's text came back and the next phase asks for its own
LegPhase(p, at, next) ==
    /\ Runnable(p)
    /\ pc[p] = at
    /\ Returned(p)
    /\ gr' = [gr EXCEPT ![p] = Call("legacy_agent")]
    /\ pc' = [pc EXCEPT ![p] = next]
    /\ UNCHANGED <<envVars, current_websocket, conn_open, current_status, clockVars, db,
                   next_id, ctx, wait, events, ret>>

LegPlan(p) == LegPhase(p, "leg_understand", "leg_plan")

LegModify(p) == LegPhase(p, "leg_plan", "leg_modify")

\* LegacyCodeAgent.execute_task lines 59-77 and the orchestrator's lines 387-424:
\* the modified code came back; compatibility check; the report is returned
LegComplete(p) ==
    /\ Runnable(p)
    /\ pc[p] = "leg_modify"
    /\ Returned(p)
    /\ LET original == ctx[p].req.legacy_code
           modified == ModifiedCode(original, gr[p].resp)
       IN LegacyReturn(p, events, current_status, ctx[p],
                       LegacyAnalysis(ReportKeys, "analyzer", modified, gr[p].resp.kind,
                                      IsCompatible(original, modified),
                                      _assess_risks(
                                          [complexity_score |-> ComplexityScore(original)],
                                          Modifications(original, modified))))
    /\ UNCHANGED <<envVars, current_websocket, conn_open, clockVars, next_id, wait>>

\* -------------------------------------------------------------- behaviours
\* One connection, one request: every mode, every answer of the service.
Next ==
    \/ \E r \in Requests : Receive(1, r)
    \/ Disconnect(1)
    \/ execute_task(1)
    \/ GenerateEnter(1)
    \/ \E d \in 0..MaxCallTicks : ServiceCall(1, d)
    \/ \E text \in Texts(gr[1].agent) : ServiceReturns(1, text)
    \/ \E error_msg \in {"quota", "retry_in_1s"} : ServiceQuotaError(1, error_msg)
    \/ ServiceOtherError(1)
    \/ StdParse(1)
    \/ StdFrontend(1)
    \/ StdFrontendDone(1)
    \/ StdBackend(1)
    \/ StdBackendDone(1)
    \/ StdDatabase(1)
    \/ StdIntegration(1)
    \/ StdTesting(1)
    \/ \E run \in PytestRuns : TestingE2E(1, run)
    \/ StdComplete(1)
    \/ ParBegin(1)
    \/ ParNext(1)
    \/ ParComplete(1)
    \/ LegBegin(1)
    \/ LegPlan(1)
    \/ LegModify(1)
    \/ LegComplete(1)
    \/ Advance

Spec == Init /\ [][Next]_vars

\* Two connections served by the one orchestrator of api/main.py, each with a
\* standard-mode request, the service answering every call (the parser with
\* the object asked for or with a list of its keys).
ConcRequest == [user_story |-> <<"login">>, mode |-> "standard", legacy_code |-> ""]

NextConc ==
    \/ \E p \in Procs : Receive(p, ConcRequest)
    \/ \E p \in Procs : execute_task(p)
    \/ \E p \in Procs : GenerateEnter(p)
    \/ \E p \in Procs : ServiceCall(p, 0)
    \/ \E p \in Procs : \E text \in (IF gr[p].agent = "ado_parser" THEN {"asked", "array_keys"}
                                       ELSE IF gr[p].agent = "integration" THEN {"asked"}
                                       ELSE {"code"}) : ServiceReturns(p, text)
    \/ \E p \in Procs : StdParse(p)
    \/ \E p \in Procs : StdFrontend(p)
    \/ \E p \in Procs : StdFrontendDone(p)
    \/ \E p \in Procs : StdBackend(p)
    \/ \E p \in Procs : StdBackendDone(p)
    \/ \E p \in Procs : StdDatabase(p)
    \/ \E p \in Procs : StdIntegration(p)
    \/ \E p \in Procs : StdTesting(p)
    \/ \E p \in Procs : TestingE2E(p, "failed")
    \/ \E p \in Procs : StdComplete(p)
    \/ Advance

SpecConc == Init /\ [][NextConc]_vars

\* One connection whose service answers every call at once and names no retry
\* delay; the scheduler keeps running whatever is ready, and time keeps passing.
NextLive ==
    \/ \E r \in Requests : Receive(1, r)
    \/ Disconnect(1)
    \/ execute_task(1)
    \/ GenerateEnter(1)
    \/ ServiceCall(1, 0)
    \/ \E text \in Texts(gr[1].agent) : ServiceReturns(1, text)
    \/ ServiceQuotaError(1, "quota")
    \/ ServiceOtherError(1)
    \/ StdParse(1)
    \/ StdFrontend(1)
    \/ StdFrontendDone(1)
    \/ StdBackend(1)
    \/ StdBackendDone(1)
    \/ StdDatabase(1)
    \/ StdIntegration(1)
    \/ StdTesting(1)
    \/ TestingE2E(1, "failed")
    \/ StdComplete(1)
    \/ ParBegin(1)
    \/ ParNext(1)
    \/ ParComplete(1)
    \/ LegBegin(1)
    \/ LegPlan(1)
    \/ LegModify(1)
    \/ LegComplete(1)
    \/ Advance

FairSpec == Init /\ [][NextLive]_vars /\ WF_vars(NextLive)

\* One connection, one standard-mode request, a service that answers every
\* call, the generation agents with any of the texts above.
NextCode ==
    \/ Receive(1, ConcRequest)
    \/ execute_task(1)
    \/ GenerateEnter(1)
    \/ ServiceCall(1, 0)
    \/ \E text \in (IF Packaged(gr[1].agent) THEN GenerationTexts
                    ELSE IF gr[1].agent \in {"ado_parser", "integration"} THEN {"asked"}
                    ELSE {"code"}) : ServiceReturns(1, text)
    \/ StdParse(1)
    \/ StdFrontend(1)
    \/ StdFrontendDone(1)
    \/ StdBackend(1)
    \/ StdBackendDone(1)
    \/ StdDatabase(1)
    \/ StdIntegration(1)
    \/ StdTesting(1)
    \/ TestingE2E(1, "failed")
    \/ StdComplete(1)
    \/ Advance

SpecCode == Init /\ [][NextCode]_vars

\* A fallback payload: the decoded document and, in order, the texts it takes
\* over from the arguments of the call that built it
Payload(doc, echoes) == [doc |-> doc, echoes |-> echoes]

\* _get_demo_response lines 187-286: the branch is picked by agent_id; prompt
\* is not read
_get_demo_response(agent, prompt) == Payload(DemoValue(agent), <<>>)

\* a guard whose canned payload carries the id of the task it stands in for
_get_fallback_result_tagged(agent_type, task) ==
    Payload(FallbackResult(agent_type), <<task.task_id>>)

\* _get_fallback_result lines 336-379: the branch is picked by agent_type; task
\* is not read
_get_fallback_result(agent_type, task) == Payload(FallbackResult(agent_type), <<>>)

Prompts == {"prompt_login", "prompt_cart"}
GuardTypes == {"frontend", "backend", "database", "testing", "integration", "quality"}
GuardTasks == [task_id : {Uuid(1), Uuid(2)}, requirements : {"ui_login", "ui_cart"}]

\* The helpers on their own: one call of a helper, its arguments drawn from
\* the records and strings above.
Probe(fn, arg) == [fn |-> fn, arg |-> arg, out |-> <<>>, done |-> FALSE]
ProbeInputs ==
    {Probe("_check_compatibility", [original |-> o, modified |-> m]) :
        <<o, m>> \in Analyses \X (Analyses \cup {Raised})}
    \cup {Probe("_extract_code_robust", [shape |-> sh, s |-> s]) :
        <<sh, s>> \in Shapes \X Strings}
    \cup {Probe("_get_demo_response", [agent |-> a, prompts |-> ps]) :
        <<a, ps>> \in (Agents \ {"orchestrator"}) \X (Prompts \X Prompts)}
    \cup {Probe("_get_fallback_result", [agent_type |-> t, tasks |-> ts]) :
        <<t, ts>> \in GuardTypes \X (GuardTasks \X GuardTasks)}

InitHelper ==
    /\ model = TRUE
    /\ quality_gates = FALSE
    /\ execute_tests = TRUE
    /\ probe \in ProbeInputs
    /\ Constructed

CheckCompatibility ==
    /\ probe.fn = "_check_compatibility"
    /\ ~probe.done
    /\ probe' = [probe EXCEPT !.out = _check_compatibility(probe.arg.original,
                                                           probe.arg.modified),
                              !.done = TRUE]
    /\ UNCHANGED <<model, quality_gates, execute_tests, current_websocket, conn_open,
                   current_status,
                   clockVars, db, next_id, pc, ctx, gr, wait, events, ret>>

ExtractCode ==
    /\ probe.fn = "_extract_code_robust"
    /\ ~probe.done
    /\ probe' = [probe EXCEPT !.out = _extract_code_robust(Hold(probe.arg.shape,
                                                                probe.arg.s)),
                              !.done = TRUE]
    /\ UNCHANGED <<model, quality_gates, execute_tests, current_websocket, conn_open,
                   current_status,
                   clockVars, db, next_id, pc, ctx, gr, wait, events, ret>>

\* the completion client falls back twice for one agent, on two prompts
\* (generate_response line 177)
DemoResponses ==
    /\ probe.fn = "_get_demo_response"
    /\ ~probe.done
    /\ probe' = [probe EXCEPT !.out = <<_get_demo_response(probe.arg.agent, probe.arg.prompts[1]),
                                        _get_demo_response(probe.arg.agent, probe.arg.prompts[2])>>,
                              !.done = TRUE]
    /\ UNCHANGED <<model, quality_gates, execute_tests, current_websocket, conn_open,
                   current_status,
                   clockVars, db, next_id, pc, ctx, gr, wait, events, ret>>

\* the guard falls back twice for one agent type, on two tasks
\* (_safe_agent_execution lines 327, 334)
GuardFallbacks ==
    /\ probe.fn = "_get_fallback_result"
    /\ ~probe.done
    /\ probe' = [probe EXCEPT !.out = <<_get_fallback_result(probe.arg.agent_type,
                                                             probe.arg.tasks[1]),
                                        _get_fallback_result(probe.arg.agent_type,
                                                             probe.arg.tasks[2])>>,
                              !.done = TRUE]
    /\ UNCHANGED <<model, quality_gates, execute_tests, current_websocket, conn_open,
                   current_status,
                   clockVars, db, next_id, pc, ctx, gr, wait, events, ret>>

NextHelper == CheckCompatibility \/ ExtractCode \/ DemoResponses \/ GuardFallbacks

SpecHelper == InitHelper /\ [][NextHelper]_vars

\* The same request run twice by the one orchestrator, one run after the other,
\* the agents' outcomes fixed by a script so that both runs meet the same ones:
\* connection 1 keeps its channel, connection 2 loses it at any point of its run
\* or calls execute_task directly with no channel attached.
Script(req, parser, integration, legacy, broken) ==
    [fn |-> "script",
     arg |-> [req |-> req, parser |-> parser, integration |-> integration,
              legacy |-> legacy, broken |-> broken],
     out |-> <<>>, done |-> FALSE]
Scripts ==
    {Script(r, t1, t2, "code_keep", b) :
        <<r, t1, t2, b>> \in
            {[user_story |-> <<"login">>, mode |-> "standard", legacy_code |-> ""],
             [user_story |-> <<"cart", "and", "pay">>, mode |-> "parallel", legacy_code |-> ""]}
            \X {"asked", "array_keys", "prose"} \X {"asked", "failed"}
            \X {"none", "backend_agent", "testing_agent"}}
    \cup
    {Script(r, "asked", "asked", t3, b) :
        <<r, t3, b>> \in
            {[user_story |-> <<"login">>, mode |-> "legacy", legacy_code |-> "def_foo"],
             [user_story |-> <<"existing", "report">>, mode |-> "standard", legacy_code |-> ""]}
            \X CodeTexts \X {"none", "legacy_agent"}}

\* the text the script has the service answer to an agent's call
ScriptText(agent) ==
    CASE agent = "ado_parser" -> probe.arg.parser
      [] agent = "integration" -> probe.arg.integration
      [] agent = "legacy_agent" -> probe.arg.legacy
      [] OTHER -> "code"

InitTwin ==
    /\ model = TRUE
    /\ quality_gates \in BOOLEAN
    /\ execute_tests = TRUE
    /\ probe \in Scripts
    /\ Constructed

NextTwin ==
    \/ ~InFlight(2) /\ Receive(1, probe.arg.req)
    \/ ~InFlight(1) /\ Receive(2, probe.arg.req)
    \/ ~InFlight(1) /\ Direct(2, probe.arg.req)
    \/ Drop(2)
    \/ \E p \in Procs : execute_task(p)
    \/ \E p \in Procs : GenerateEnter(p)
    \/ \E p \in Procs : ServiceCall(p, 0)
    \/ \E p \in Procs : probe.arg.broken # gr[p].agent /\ ServiceReturns(p, ScriptText(gr[p].agent))
    \/ \E p \in Procs : probe.arg.broken = gr[p].agent /\ ServiceOtherError(p)
    \/ \E p \in Procs : StdParse(p)
    \/ \E p \in Procs : StdFrontend(p)
    \/ \E p \in Procs : StdFrontendDone(p)
    \/ \E p \in Procs : StdBackend(p)
    \/ \E p \in Procs : StdBackendDone(p)
    \/ \E p \in Procs : StdDatabase(p)
    \/ \E p \in Procs : StdIntegration(p)
    \/ \E p \in Procs : StdTesting(p)
    \/ \E p \in Procs : TestingE2E(p, "failed")
    \/ \E p \in Procs : StdComplete(p)
    \/ \E p \in Procs : ParBegin(p)
    \/ \E p \in Procs : ParNext(p)
    \/ \E p \in Procs : ParComplete(p)
    \/ \E p \in Procs : LegBegin(p)
    \/ \E p \in Procs : LegPlan(p)
    \/ \E p \in Procs : LegModify(p)
    \/ \E p \in Procs : LegComplete(p)
    \/ Advance

SpecTwin == InitTwin /\ [][NextTwin]_vars

\* One connection, one standard-mode request, test execution enabled or not:
\* the generation agents are answered, the test-generation agent's calls are
\* answered or fail, and pytest ends in any way.
InitTests ==
    /\ model \in BOOLEAN
    /\ quality_gates = FALSE
    /\ execute_tests \in BOOLEAN
    /\ probe = NoProbe
    /\ Constructed

NextTests ==
    \/ Receive(1, ConcRequest)
    \/ execute_task(1)
    \/ GenerateEnter(1)
    \/ ServiceCall(1, 0)
    \/ \E text \in (IF gr[1].agent \in {"ado_parser", "integration"} THEN {"asked"}
                    ELSE {"code"}) : ServiceReturns(1, text)
    \/ gr[1].agent = "testing_agent" /\ ServiceQuotaError(1, "retry_in_1s")
    \/ gr[1].agent = "testing_agent" /\ ServiceOtherError(1)
    \/ StdParse(1)
    \/ StdFrontend(1)
    \/ StdFrontendDone(1)
    \/ StdBackend(1)
    \/ StdBackendDone(1)
    \/ StdDatabase(1)
    \/ StdIntegration(1)
    \/ StdTesting(1)
    \/ \E run \in PytestRuns : TestingE2E(1, run)
    \/ StdComplete(1)
    \/ Advance

SpecTests == InitTests /\ [][NextTests]_vars

\* One legacy-integration request whose three completion calls each fail with
\* quota errors or are answered; the texts of the errors of one
\* generate_response call are fixed in advance, one per attempt.
ErrorScript(errors) == [fn |-> "quota_errors", arg |-> [errors |-> errors], out |-> <<>>,
                        done |-> FALSE]
LegacyRequest == [user_story |-> <<"login">>, mode |-> "legacy", legacy_code |-> "def_foo"]

InitRetry ==
    /\ model = TRUE
    /\ quality_gates = FALSE
    /\ execute_tests = TRUE
    /\ probe \in {ErrorScript(errors) : errors \in [1..max_retries -> QuotaTexts]}
    /\ Constructed

NextRetry ==
    \/ Receive(1, LegacyRequest)
    \/ execute_task(1)
    \/ GenerateEnter(1)
    \/ \E d \in 0..MaxCallTicks : ServiceCall(1, d)
    \/ ServiceReturns(1, "code_keep")
    \/ ServiceQuotaError(1, probe.arg.errors[gr[1].attempt + 1])
    \/ LegBegin(1)
    \/ LegPlan(1)
    \/ LegModify(1)
    \/ LegComplete(1)
    \/ Advance

SpecRetry == InitRetry /\ [][NextRetry]_vars

\* ------------------------------------------------------------------ claims
StdStages == {"std_frontend", "std_backend_start", "std_backend", "std_database_start",
              "std_database", "std_integration", "std_unit", "std_e2e"}

\* C1: when execute_task has returned, in every mode, the record it added as
\* in-progress has made exactly one transition, to completed or to failed.
C1_OneTerminalTransition ==
    \A p \in Procs :
        pc[p] = "returned" =>
            /\ db[ctx[p].task_id].status \in TerminalStatus
            /\ db[ctx[p].task_id].updates = 1

\* C2: an exception that escapes every per-stage guard is not raised to the
\* caller: execute_task returns, the task is recorded failed, and the result
\* has status 'failed' and a non-empty error message.
C2_EscapedExceptionReported ==
    \A p \in Procs :
        ctx[p].escaped =>
            /\ pc[p] = "returned"
            /\ db[ctx[p].task_id].status = "failed"
            /\ ret[p].status = "failed"
            /\ ret[p].error # ""

C2_Witness ==
    /\ pc[1] = "returned"
    /\ ctx[1].escaped
    /\ ret[1].status = "failed"
    /\ events[1][Len(events[1])].type = "error"

C4_ModePrecedence ==
    \A p \in Procs :
        LET r == ctx[p].req
            legacy == r.legacy_code # "" \/ r.mode = "legacy"
                        \/ \E i \in 1..Len(r.user_story) : Lower(r.user_story[i]) = "existing"
            parallel == r.mode = "parallel"
                        \/ \E i \in 1..Len(r.user_story) : Lower(r.user_story[i]) = "parallel"
            chosen == IF legacy THEN "legacy" ELSE IF parallel THEN "parallel" ELSE "standard"
        IN  /\ ctx[p].path # "none" => ctx[p].path = chosen
            /\ pc[p] \in {"leg_begin", "leg_understand", "leg_plan", "leg_modify"}
                  => chosen = "legacy"
            /\ pc[p] \in {"par_begin", "par_next"} => chosen = "parallel"
            /\ pc[p] \in StdStages \cup {"std_begin", "std_parse"}
                  => /\ chosen \in {"standard", "parallel"}
                     /\ (ctx[p].sub # -1) = (chosen = "parallel")
            /\ (pc[p] = "returned" /\ ~ctx[p].escaped) =>
                  ret[p].mode = CASE chosen = "legacy" -> "legacy_integration"
                                  [] chosen = "parallel" -> "parallel"
                                  [] OTHER -> "standard"

C4_Witness ==
    /\ pc[1] = "returned"
    /\ ctx[1].req.mode = "parallel"
    /\ ctx[1].req.legacy_code # ""
    /\ ret[1].mode = "legacy_integration"

\* C5: a generate_response invocation begins at most max_retries (3) calls of
\* the service, and an accepted execute_task call returns whenever every
\* service call returns or fails.
C5_BoundedRetriesTerminate ==
    /\ [](\A p \in Procs : gr[p].calls <= max_retries)
    /\ \A p \in Procs : (pc[p] = "accepted") ~> (pc[p] = "returned")

C5_Witness ==
    /\ gr[1].stage = "done"
    /\ gr[1].calls = max_retries
    /\ gr[1].sleeps = max_retries - 1
    /\ gr[1].resp.kind = "demo"

\* C6: for each of the six roles, when all of an invocation's service attempts
\* failed with a quota error, the agent's result, as the pipeline receives it,
\* is not 'failed' and carries the role's required fields.
C6_QuotaFallbackForEveryRole ==
    \A p \in Procs :
        (gr[p].stage = "done" /\ gr[p].resp.kind = "demo") =>
            LET agent == gr[p].agent
                result == CASE agent = "ado_parser" -> ParserResult(gr[p].resp)
                            [] Packaged(agent) ->
                                  SafeResult(agent, GenerationResult(agent, gr[p].resp), FALSE)
                            [] agent = "integration" ->
                                  SafeResult(agent, IntegrationResult(gr[p].resp), FALSE)
                            [] agent = "testing_agent" ->
                                  SafeResult("testing",
                                             TestingResult(gr[p].resp, _execute_pytest("failed"),
                                                           gr[p].resp),
                                             FALSE)
                            [] OTHER -> NoResult
            IN  agent # "legacy_agent" =>
                    /\ result.status # "failed"
                    /\ RoleKeys(agent) \subseteq result.keys

\* C7: every call of the completion service begins at least the minimum
\* interval after the call before it began, whichever agents made them.
C7_MinimumInterval == last_call.gap >= min_request_interval

\* C8: with several connections served at once, a call made for one connection
\* begins at least the minimum interval after the preceding call made for
\* another connection.
C8_AtomicThrottle ==
    (last_call.prev # 0 /\ last_call.by # last_call.prev) =>
        last_call.gap >= min_request_interval

\* C9: on a connected channel the events of one execute_task call are progress
\* events followed by exactly one terminal event ('complete' or 'error'), which
\* is the last event when the call has returned.
C9_OneTerminalEventLast ==
    \A p \in Procs :
        (conn_open[p] /\ current_websocket = p) =>
            /\ \A i \in 1..(Len(events[p]) - 1) : events[p][i].type = "progress"
            /\ pc[p] = "returned" =>
                  /\ events[p] # <<>>
                  /\ events[p][Len(events[p])].type \in {"complete", "error"}

\* C10: a legacy-integration run whose modification call failed (quota
\* exhausted, service failure or no model) returns the original legacy_code as
\* its modified_code.
C10_FailedModificationKeepsOriginal ==
    \A p \in Procs :
        (/\ pc[p] = "returned"
         /\ ret[p].mode = "legacy_integration"
         /\ ret[p].legacy_analysis.phase4 \in {"demo", "error"}) =>
            ret[p].legacy_analysis.modified_code = ctx[p].req.legacy_code

\* C11: for every pair of analysis records, also when a side is a parse-error
\* record, is_compatible is true exactly when the original's endpoint-function
\* names are among the modified's and the original's function names are among
\* the modified's; the score is 100 when compatible and 50 otherwise.
C11_CompatibilityIsContainment ==
    (probe.fn = "_check_compatibility" /\ probe.done /\ probe.arg.modified.kind # "raised") =>
        LET o == probe.arg.original
            m == probe.arg.modified
            contained == (\A e \in o.endpoints : e \in m.endpoints)
                         /\ (\A f \in o.functions : f \in m.functions)
        IN /\ probe.out.is_compatible = contained
           /\ probe.out.compatibility_score = IF contained THEN 100 ELSE 50

C11_Witness ==
    /\ probe.fn = "_check_compatibility"
    /\ probe.done
    /\ probe.arg.original.functions = {"foo"}
    /\ probe.arg.original.endpoints = {}
    /\ probe.arg.modified.kind = "parse_error"
    /\ ~probe.out.is_compatible
    /\ probe.out.compatibility_score = 50

\* C12 as stated: for every string s and each of the three shapes, the
\* extraction from a result holding s in that shape returns exactly s.
C12_ExtractReturnsExactString ==
    (probe.fn = "_extract_code_robust" /\ probe.done) =>
        probe.out = Value("code", probe.arg.s)

\* C12 as amended: for every non-empty string s that has no code fence, no
\* backslash-n escape and no whitespace at either end, and each of the three
\* shapes, the extraction returns exactly s.
C12_ExtractReturnsCleanString ==
    (/\ probe.fn = "_extract_code_robust"
     /\ probe.done
     /\ probe.arg.s # <<>>
     /\ \A i \in 1..Len(probe.arg.s) : probe.arg.s[i] \notin {"fence", "esc_n"}
     /\ probe.arg.s[1] \notin {"sp", "nl"}
     /\ probe.arg.s[Len(probe.arg.s)] \notin {"sp", "nl"}) =>
        probe.out = Value("code", probe.arg.s)

C12_Witness ==
    /\ probe.fn = "_extract_code_robust"
    /\ probe.done
    /\ probe.arg.shape = "success"
    /\ probe.arg.s = <<"x", "nl", "x">>
    /\ probe.out = Value("code", <<"x", "nl", "x">>)

C14_StandardResultComplete ==
    \A p \in Procs :
        (pc[p] = "returned" /\ ctx[p].path = "standard") =>
            /\ ret[p].task_id = ctx[p].task_id
            /\ ret[p].task_id # NoId
            /\ ret[p].status = "completed"
            /\ ret[p].generated_code.frontend # ""
            /\ ret[p].generated_code.backend # ""
            /\ ret[p].generated_code.database # ""
            /\ "summary" \in ret[p].testing_report.keys

\* C15: in a standard pipeline the agents are asked in the order parser,
\* frontend, backend, database, integration, testing, each only when the
\* results of all agents before it are stored and none of a later one is.
C15_FixedOrderMaterialized ==
    \A p \in Procs :
        LET c == ctx[p]
            fe == c.frontend_result # NoBrief
            be == c.backend_result # NoBrief
            da == c.database_result # NoBrief
            ig == c.integration_result # NoResult
            agent == gr[p].agent
        IN (c.path \in {"standard", "parallel"} /\ agent # "none") =>
              /\ agent = "ado_parser" => ~fe /\ ~be /\ ~da /\ ~ig
              /\ agent = "frontend_agent" => ~fe /\ ~be /\ ~da /\ ~ig
              /\ agent = "backend_agent" => fe /\ ~be /\ ~da /\ ~ig
              /\ agent = "database_agent" => fe /\ be /\ ~da /\ ~ig
              /\ agent = "integration" => fe /\ be /\ da /\ ~ig
              /\ agent = "testing_agent" => fe /\ be /\ da /\ ig
              /\ agent \in {"ado_parser", "frontend_agent", "backend_agent",
                            "database_agent", "integration", "testing_agent"}

C15_Witness ==
    /\ ctx[1].path = "standard"
    /\ gr[1].agent = "testing_agent"
    /\ gr[1].stage = "calling"
    /\ ctx[1].integration_result # NoResult
    /\ ctx[1].database_result # NoBrief

\* C16: in a legacy run whose code does not parse, the phases after the static
\* analysis make no call of the completion service.
C16_ParseErrorShortCircuits ==
    \A p \in Procs :
        (ctx[p].path = "legacy" /\ ParseError(ctx[p].req.legacy_code)) =>
            /\ gr[p].calls = 0
            /\ gr[p].stage \notin {"ready", "calling"}

\* C17: when a call fails with an error that is not quota-classified,
\* generate_response returns at once, without a sleep, the fallback payload of
\* the calling agent's role, the same payload as on retry exhaustion.
C17_OtherErrorRoleFallback ==
    \A p \in Procs :
        (gr[p].stage = "done" /\ gr[p].resp.kind = "error" /\ gr[p].calls > 0) =>
            /\ wait[p] = 0
            /\ RoleKeys(gr[p].agent) \subseteq DecodeResponse(gr[p].agent, gr[p].resp).keys
            /\ DecodeResponse(gr[p].agent, gr[p].resp)
                  = DecodeResponse(gr[p].agent, Response("demo", "-"))

C20_TerminalRecordImmutable ==
    [][\A id \in AllIds : db[id].status \in TerminalStatus => db'[id] = db[id]]_vars

C20_Witness ==
    /\ db[Uuid(1)].status = "failed"
    /\ db[Uuid(2)].status = "completed"
    /\ pc[1] = "returned"
    /\ pc[2] = "returned"

\* C21: during one run the writes issued to the task store are the add at task
\* creation and, once the run has returned, one update, both for the run's own
\* task id; no other write is issued in between, in any mode.
C21_OnlyCheckpointWrites ==
    \A p \in Procs :
        ctx[p].task_id # NoId =>
            LET id == ctx[p].task_id
                w == Writes(ctx[p].trace)
            IN  IF pc[p] = "returned"
                THEN w = << <<"add", id>>, <<"update", id>> >>
                ELSE w = << <<"add", id>> >>

\* C22: two runs of the same request that meet the same agent outcomes, one
\* with every event delivered, the other with its sends failing from some point
\* on or with no channel attached, invoke the same agents in the same order,
\* return the same FinalResult (but for the task id) and leave the same status
\* stored.
Anon(result) ==
    [result EXCEPT !.task_id = NoId,
                   !.features = [i \in DOMAIN @ |-> [@[i] EXCEPT !.task_id = NoId]]]

C22_DeliveryFailureIgnored ==
    (/\ pc[1] = "returned" /\ pc[2] = "returned"
     /\ ret[1].quality_report = ret[2].quality_report) =>
        /\ Invoked(ctx[1].trace) = Invoked(ctx[2].trace)
        /\ Anon(ret[1]) = Anon(ret[2])
        /\ db[ctx[1].task_id].status = db[ctx[2].task_id].status

C22_Witness ==
    /\ pc[1] = "returned" /\ pc[2] = "returned"
    /\ ret[1].status = "completed"
    /\ ret[1].mode = "standard"
    /\ ~conn_open[2]
    /\ Len(events[1]) > Len(events[2])
    /\ Len(events[2]) > 2
    /\ Anon(ret[1]) = Anon(ret[2])

\* C23: whenever the integration check of a standard run failed (its completion
\* call failed, its response could not be decoded, or the guard found the
\* agent's result empty, failed or unusable), the integration_report of the run
\* has compatible = false, compatibility_score = 0 and exactly one mismatch.
C23_IntegrationFailureReported ==
    \A p \in Procs :
        (/\ pc[p] = "returned"
         /\ ret[p].mode = "standard"
         /\ ret[p].integration_report.src \in {"demo", "error", "handler", "guard"}) =>
            /\ ret[p].integration_report.keys = CompatKeys
            /\ ret[p].integration_report.detail = "incompatible_0_1"

\* C24: the test-generation agent always returns both artifacts and a summary;
\* when generating the unit tests failed (the completion call failed) the
\* unit-test artifact is recorded as passed = false, and the end-to-end
\* artifact is generated all the same.
C24_ArtifactsIndependent ==
    \A p \in Procs :
        (pc[p] = "returned" /\ ret[p].mode = "standard") =>
            LET report == ret[p].testing_report IN
            /\ TestingKeys \subseteq report.keys
            /\ report.detail # "none"
            /\ report.src \in {"demo", "error"} => ~report.unit_execution.passed

\* C25: whatever the completion client returned, a success result of the
\* requirement parser carries a payload that is an object with the three
\* required keys.
C25_ParserPayloadHasRequiredKeys ==
    \A p \in Procs :
        (gr[p].agent = "ado_parser" /\ gr[p].stage = "done") =>
            LET requirements == ParserResult(gr[p].resp) IN
            requirements.status = "success" =>
                /\ requirements.dict
                /\ RequiredKeys \subseteq requirements.keys

\* C26: a run of a legacy-flagged request calls the legacy analyzer once, under
\* the guard, and no other agent; it never enters a generation state, and it
\* returns a FinalResult of mode 'legacy_integration'.
C26_LegacySingleAnalyzerCall ==
    \A p \in Procs :
        LET r == ctx[p].req
            legacy == r.legacy_code # "" \/ r.mode = "legacy" \/ Contains(r.user_story, "existing")
            called == Invoked(ctx[p].trace)
        IN  (legacy /\ ctx[p].task_id # NoId) =>
                /\ Len(called) <= 1
                /\ \A i \in 1..Len(called) : called[i] = <<"agent", "legacy_agent">>
                /\ gr[p].agent \in {"none", "legacy_agent"}
                /\ pc[p] \notin StdStages \cup {"std_begin", "std_parse", "par_begin", "par_next"}
                /\ pc[p] = "returned" =>
                      /\ Len(called) = 1
                      /\ ret[p].mode = "legacy_integration"
                      /\ ret[p].status = "completed"

C26_Witness ==
    /\ pc[1] = "returned"
    /\ ctx[1].req.legacy_code = "def_foo"
    /\ ctx[1].req.mode = "parallel"
    /\ Invoked(ctx[1].trace) = << <<"agent", "legacy_agent">> >>
    /\ ret[1].legacy_analysis.src = "analyzer"
    /\ ret[1].mode = "legacy_integration"

\* C27: in a parallel run the pipeline of sub-story i is under way only when
\* the pipelines of all i earlier sub-stories have returned their results, and
\* a completion-service call in flight belongs to the one agent invocation
\* made last: no two invocations or calls of the run overlap.
C27_ParallelIsSequential ==
    \A p \in Procs :
        (ctx[p].path = "parallel" /\ InFlight(p) /\ ctx[p].sub >= 0) =>
            LET called == Invoked(ctx[p].trace) IN
            /\ Len(ctx[p].features) = ctx[p].sub + (IF pc[p] = "par_next" THEN 1 ELSE 0)
            /\ \A i \in 1..Len(ctx[p].features) :
                  ctx[p].features[i].task_id = SubId(ctx[p].task_id, i - 1)
            /\ gr[p].stage # "idle" =>
                  /\ called # <<>>
                  /\ called[Len(called)] = <<"agent", gr[p].agent>>

C27_Witness ==
    /\ ctx[1].path = "parallel"
    /\ ctx[1].sub = 1
    /\ pc[1] = "std_backend"
    /\ gr[1].stage = "calling"
    /\ Len(ctx[1].features) = 1
    /\ ctx[1].features[1].status = "completed"

\* C28: the FinalResult of a legacy-integration run has backward_compatible
\* true when every function the original legacy code defines is found in the
\* modified code and false otherwise; it is false when the analyzer reported
\* that no legacy code was provided or was replaced by the guard's fallback.
C28_BackwardCompatibleIffKept ==
    \A p \in Procs :
        (pc[p] = "returned" /\ ret[p].mode = "legacy_integration") =>
            LET analysis == ret[p].legacy_analysis
                modified == analysis.modified_code
                found == IF ParseError(modified) THEN {} ELSE Functions(modified)
            IN  ret[p].backward_compatible =
                    (/\ analysis.src = "analyzer"
                     /\ \A f \in Defined(ctx[p].req.legacy_code) : f \in found)

\* the inputs of _assess_risks around its thresholds
RiskComplexities == {0, 50, 51, 90}
RiskNewLines == {0 - 3, 50, 51, 80}

\* C29: the risk score is 30 for a complexity above 50, plus 20 for more than
\* 50 new lines, plus 50 for a failed modification; the level is low below 30,
\* medium below 60 and high from 60; a legacy-integration run whose
\* modification call failed never reports the level low.
C29_FailedModificationNeverLow ==
    /\ \A c \in RiskComplexities, n \in RiskNewLines, e \in BOOLEAN :
          LET risk == _assess_risks([complexity_score |-> c],
                                    [new_lines |-> n, error |-> e])
              score == (IF c > 50 THEN 30 ELSE 0) + (IF n > 50 THEN 20 ELSE 0)
                       + (IF e THEN 50 ELSE 0)
          IN  /\ risk.risk_score = score
              /\ risk.risk_level = "low" <=> score < 30
              /\ risk.risk_level = "medium" <=> (score >= 30 /\ score < 60)
              /\ risk.risk_level = "high" <=> score >= 60
              /\ e => risk.risk_level # "low"
    /\ \A p \in Procs :
          (/\ pc[p] = "returned"
           /\ ret[p].mode = "legacy_integration"
           /\ ret[p].legacy_analysis.phase4 \in {"demo", "error"}) =>
              ret[p].legacy_analysis.risk_assessment.risk_level # "low"

\* _execute_standard_generation lines 148-253: the percentages of its
\* _send_ws_update calls in program order; 92 is sent inside
\* `if self.quality_gates` (line 240)
Checkpoints(gated) ==
    <<10, 30, 35, 55, 70, 80, 85>> \o (IF gated THEN <<92>> ELSE <<>>) \o <<100>>

\* the percentages of the progress events a run delivered on its connection,
\* after the 5 the endpoint sends before it starts the run
RunProgress(evs) ==
    LET sent == SelectSeq(evs, LAMBDA e : e.type = "progress")
    IN  [i \in 1..(Len(sent) - 1) |-> sent[i + 1].progress]

\* C30: on a connection that stayed open, the progress events of a
\* standard-mode run are at every moment the first checkpoints of 10, 30, 35,
\* 55, 70, 80, 85, (92 when the quality gate runs), 100, in that order and
\* once each, and the run that has returned has sent all of them.
C30_CheckpointsInOrder ==
    \A p \in Procs :
        (/\ ctx[p].path = "standard"
         /\ conn_open[p]
         /\ current_websocket = p) =>
            LET sent == RunProgress(events[p])
                all == Checkpoints(quality_gates)
            IN  /\ Len(sent) <= Len(all)
                /\ sent = SubSeq(all, 1, Len(sent))
                /\ pc[p] = "returned" => sent = all

C33_OnlySuccessStampsRequestTime ==
    [][LET Success(a) == \E p \in Procs : /\ gr[p].agent = a
                                           /\ gr[p].stage = "calling"
                                           /\ gr'[p].stage = "done"
                                           /\ gr'[p].resp.kind = "service"
           InClient == \E p \in Procs : /\ gr[p].stage \in {"enter", "ready", "calling"}
                                        /\ gr'[p] # gr[p]
           TimePasses(d) == \A a \in Agents :
                               last_request_age'[a] = Sat(last_request_age[a] + d)
       IN /\ \A a \in Agents :
                IF Success(a) THEN last_request_age'[a] = 0
                ELSE last_request_age'[a] >= last_request_age[a]
          /\ (InClient /\ \A a \in Agents : ~Success(a)) =>
                last_request_age' = last_request_age
          /\ (\A a \in Agents : ~Success(a)) =>
                \E d \in 0..(min_request_interval + PytestTimeout) : TimePasses(d)
      ]_vars

C33_Witness ==
    /\ pc[1] = "std_e2e"
    /\ ctx[1].unit.kind = "service"
    /\ gr[1].agent = "testing_agent"
    /\ gr[1].stage = "done"
    /\ gr[1].resp.kind = "error"
    /\ gr[1].calls = 1
    /\ last_request_age["testing_agent"] = min_request_interval
    /\ last_request_age["legacy_agent"] = min_request_interval

\* C34: with one task at a time, every service call of an agent, first attempt
\* or retry, begins at least min_request_interval after that agent's most
\* recent successful call completed.
C34_CallsAfterIntervalFromSuccess ==
    [][\A p \in Procs :
         (gr[p].stage = "ready" /\ gr'[p].stage = "calling") =>
             last_request_age[gr[p].agent] >= min_request_interval
      ]_vars

C34_Witness ==
    /\ pc[1] = "std_e2e"
    /\ ctx[1].unit.kind = "service"
    /\ gr[1].agent = "testing_agent"
    /\ gr[1].stage = "calling"
    /\ gr[1].attempt = 1
    /\ gr[1].calls = 2

\* C35: in every mode, the percentages of the progress events of one
\* execute_task call, as delivered on a connection that stayed open, never
\* decrease, and 100 is sent at most once, as the last of them.
C35_ProgressMonotone ==
    \A p \in Procs :
        (conn_open[p] /\ current_websocket = p) =>
            LET sent == RunProgress(events[p]) IN
            /\ \A i \in 1..(Len(sent) - 1) : sent[i] <= sent[i + 1]
            /\ \A i \in 1..Len(sent) : sent[i] = 100 => i = Len(sent)

\* C36: with two connections whose runs interleave, a step of the run that
\* connection p submitted delivers events to connection p only: it adds
\* nothing to what the other connection has received.
C36_EventsReachTheirOwnConnection ==
    [][\A p \in Procs : \A q \in Procs \ {p} :
         (pc[p] # "idle" /\ pc'[p] # pc[p]) => events'[q] = events[q]
      ]_vars

\* C37: when an execute_task call has returned and no other run is in flight,
\* the orchestrator and every agent the run invoked, the requirement parser
\* included, report current_status 'idle'.
C37_AllIdleAfterReturn ==
    \A p \in Procs :
        (pc[p] = "returned" /\ \A q \in Procs : ~InFlight(q)) =>
            LET called == Invoked(ctx[p].trace) IN
            /\ current_status["orchestrator"] = "idle"
            /\ \A i \in 1..Len(called) : current_status[called[i][2]] = "idle"

\* C38: the integration_report of every standard-mode FinalResult carries the
\* fields compatible, compatibility_score and mismatches, whichever path
\* produced it.
C38_IntegrationReportIsVerdict ==
    \A p \in Procs :
        (pc[p] = "returned" /\ ret[p].mode = "standard") =>
            /\ ret[p].integration_report.dict
            /\ CompatKeys \subseteq ret[p].integration_report.keys

\* C39: a standard run never waits on the quality gate.  Without a
\* quality-gate agent the run goes from test generation to completion, no 92
\* is sent and the FinalResult has no quality_report; with one, the agent is
\* invoked exactly once, after the test generator and as the last agent of the
\* run, 92 is sent once between 85 and 100, and its report, or the guard's
\* substitute when it raised, is the quality_report.
C39_QualityGateOptional ==
    \A p \in Procs :
        ctx[p].path = "standard" =>
            LET called == Invoked(ctx[p].trace)
                gates == SelectSeq(called, LAMBDA e : e[2] = "quality_gates")
                sent == RunProgress(events[p])
                done == pc[p] = "returned" /\ ret[p].mode = "standard"
            IN  /\ Len(gates) = IF quality_gates /\ done THEN 1 ELSE 0
                /\ gates # <<>> =>
                      /\ Len(called) > 1
                      /\ called[Len(called)] = <<"agent", "quality_gates">>
                      /\ called[Len(called) - 1] = <<"agent", "testing_agent">>
                /\ done =>
                      /\ ret[p].status = "completed"
                      /\ IF quality_gates
                         THEN ret[p].quality_report
                                 \in {QualityReport, FallbackResult("quality")}
                         ELSE ret[p].quality_report = NoResult
                /\ (conn_open[p] /\ current_websocket = p) =>
                      /\ (\E i \in 1..Len(sent) : sent[i] = 92) <=> (quality_gates /\ done)
                      /\ done => sent = <<10, 30, 35, 55, 70, 80, 85>>
                                        \o (IF quality_gates THEN <<92>> ELSE <<>>)
                                        \o <<100>>

C39_Witness ==
    /\ quality_gates
    /\ pc[1] = "returned"
    /\ ctx[1].path = "standard"
    /\ conn_open[1]
    /\ ret[1].mode = "standard"
    /\ ret[1].quality_report = FallbackResult("quality")
    /\ RunProgress(events[1]) = <<10, 30, 35, 55, 70, 80, 85, 92, 100>>
====
